---- MODULE Spec2Model ----
(***************************************************************************)
(* Paired-image dataset of pytorch-CycleGAN-and-pix2pix:                   *)
(*   data/aligned_dataset.py  AlignedDataset (__init__, __getitem__,       *)
(*                            __len__)                                     *)
(*   data/base_dataset.py     BaseDataset (cache), get_params,             *)
(*                            get_transform and the image helpers          *)
(*                                                                         *)
(* Numbers.  random.random() returns a float in [0, 1); it is modelled by  *)
(* a draw r in 0 .. Scale-1 standing for r/Scale, a probability option by  *)
(* p in 0 .. Scale standing for p/Scale, and the Python value True, when   *)
(* it is compared with a float, by Scale (True == 1).  Image sizes are     *)
(* pairs <<w, h>> of integers; a pixel buffer is represented by its size.  *)
(***************************************************************************)
EXTENDS Integers, Sequences, FiniteSets

\* ------------------------------------------------------------------ bounds
MaxFiles == 3       \* files make_dataset may return
MaxRepeat == 3      \* largest opt.repeat_dataset_count
MaxCacheNum == 2    \* largest opt.cache_num
MaxDim == 4         \* largest width and height of one half of a pair image
MaxLoad == 3        \* largest opt.load_size
MaxRotate == 1      \* largest opt.rotate
Scale == 4          \* resolution of random.random() and of the probabilities
MaxCalls == 4       \* __make_power_2 calls followed in one process

\* ------------------------------------------------------- program constants
base == 4           \* get_transform passes base=4 to __make_power_2

VARIABLES
    opt,            \* the option object (self.opt)
    ds_pc,          \* "new" before AlignedDataset.__init__, then "ready" / "assert_failed"
    files,          \* what make_dataset returned
    disk,           \* path -> size <<w, h>> of the pair image stored in the file
    AB_paths,       \* self.AB_paths
    input_nc,       \* self.input_nc
    output_nc,      \* self.output_nc
    cache,          \* self.cache: path -> bytes
    path,           \* the path of the last get_cache_path call (0: none yet)
    bts,            \* what the last get_cache_path call returned
    len_result,     \* what the last __len__ call returned (-1: none yet)
    pc,             \* position of the running __getitem__ call
    A,              \* the source image (its size), as __getitem__ holds it
    B,              \* the target image (its size)
    heap,           \* the dict objects __getitem__ allocated: reference -> dict
    transform_params_A,  \* reference to A's parameter dict (0: unbound)
    transform_params_B,  \* reference to B's parameter dict (0: unbound)
    A_transform,    \* the list get_transform composed for A
    B_transform,    \* the list get_transform composed for B
    trials,         \* the random trials of the last get_transform call
    applied,        \* sizes the image went through in the last Compose call
    has_printed,    \* __print_size_warning.has_printed is set
    printed,        \* the warnings printed so far in this process
    calls           \* the __make_power_2 calls made so far in this process

dsVars == <<opt, ds_pc, files, disk, AB_paths, input_nc, output_nc, cache, path, bts, len_result>>
itemVars == <<pc, A, B, heap, transform_params_A, transform_params_B,
              A_transform, B_transform, trials, applied>>
warnVars == <<has_printed, printed, calls>>

vars == <<dsVars, itemVars, warnVars>>

\* ------------------------------------------------------------- arithmetic
Max(a, b) == IF a >= b THEN a ELSE b
Min(a, b) == IF a <= b THEN a ELSE b

\* Python 3 round(n / d) for n >= 0, d > 0: to the nearest integer, a tie to
\* the even one
round_div(n, d) ==
    LET q == n \div d
        r == n % d
    IN  IF 2 * r < d THEN q
        ELSE IF 2 * r > d THEN q + 1
        ELSE IF q % 2 = 0 THEN q ELSE q + 1

\* ---------------------------------------------------------- Python values
\* A value carries its type: comparisons and truth tests in the code depend
\* on it.  A float is stored multiplied by Scale.
PyNone == [py |-> "None", v |-> 0]
PyInt(n) == [py |-> "int", v |-> n]
PyBool(b) == [py |-> "bool", v |-> b]
PyFloat(n) == [py |-> "float", v |-> n]
PyStr(s) == [py |-> "str", v |-> s]
PyFunc(name) == [py |-> "function", v |-> name]
PyTuple(items) == [py |-> "tuple", v |-> items]
PyList(items) == [py |-> "list", v |-> items]
PyDict(d) == [py |-> "dict", v |-> d]

IsNone(x) == x.py = "None"

\* bool(x), as `if x:` applies it
Truthy(x) ==
    CASE x.py = "bool" -> x.v
      [] x.py = "int" -> x.v # 0
      [] x.py = "float" -> x.v # 0
      [] x.py = "None" -> FALSE
      [] x.py \in {"tuple", "list"} -> x.v # <<>>
      [] OTHER -> TRUE

\* the number a value is when it is compared with a float: True is 1.0
AsFloat(x) ==
    CASE x.py = "bool" -> IF x.v THEN Scale ELSE 0
      [] x.py = "int" -> x.v * Scale
      [] x.py = "float" -> x.v

\* x == y: numbers compare by value, a function object and a string are
\* never equal, values of one type compare by content
PyEq(x, y) ==
    IF x.py \in {"bool", "int", "float"} /\ y.py \in {"bool", "int", "float"}
    THEN AsFloat(x) = AsFloat(y)
    ELSE x.py = y.py /\ x.v = y.v

\* d.get(key, default)
dict_get(d, key, default) == IF key \in DOMAIN d.v THEN d.v[key] ELSE default

\* d[key] = value
dict_set(d, key, value) ==
    PyDict([k \in DOMAIN d.v \cup {key} |-> IF k = key THEN value ELSE d.v[k]])

\* json.dumps: a tuple and a list both become an array
RECURSIVE json_dumps(_)
json_dumps(x) ==
    CASE x.py = "dict" -> [js |-> "object", v |-> [k \in DOMAIN x.v |-> json_dumps(x.v[k])]]
      [] x.py \in {"tuple", "list"} ->
            [js |-> "array", v |-> [i \in 1 .. Len(x.v) |-> json_dumps(x.v[i])]]
      [] x.py = "bool" -> [js |-> IF x.v THEN "true" ELSE "false", v |-> 0]
      [] x.py = "int" -> [js |-> "number", v |-> x.v]
      [] x.py = "None" -> [js |-> "null", v |-> 0]

\* json.loads: an array becomes a list
RECURSIVE json_loads(_)
json_loads(j) ==
    CASE j.js = "object" -> PyDict([k \in DOMAIN j.v |-> json_loads(j.v[k])])
      [] j.js = "array" -> PyList([i \in 1 .. Len(j.v) |-> json_loads(j.v[i])])
      [] j.js = "true" -> PyBool(TRUE)
      [] j.js = "false" -> PyBool(FALSE)
      [] j.js = "number" -> PyInt(j.v)
      [] j.js = "null" -> PyNone

\* ----------------------------------------------------------------- random
Draws == 0 .. Scale - 1                 \* random.random()
randint(a, b) == a .. b                 \* random.randint(a, b), both ends included
draw_lt(r, x) == r < AsFloat(x)         \* random.random() < x
draw_gt_half(r) == 2 * r > Scale        \* random.random() > 0.5

\* ------------------------------------------------------------ the options
Paths == 1 .. MaxFiles
NoBytes == <<>>
Half == Scale \div 2
Modes == { "resize_and_crop", "crop", "scale_width", "scale_width_and_crop",
           "scale_short_and_crop", "none" }

\* 'text' in opt.preprocess, for the texts get_transform looks for
Contains(mode, text) ==
    CASE text = "resize" -> mode = "resize_and_crop"
      [] text = "scale_width" -> mode \in {"scale_width", "scale_width_and_crop"}
      [] text = "scale_short" -> mode = "scale_short_and_crop"
      [] text = "crop" -> mode \in {"resize_and_crop", "crop", "scale_width_and_crop",
                                    "scale_short_and_crop"}

\* The option object; each specification varies the fields its operations read.
DefaultOpt ==
    [ repeat_dataset_count |-> 1, cache_num |-> 0,
      load_size |-> 2, crop_size |-> 2, preprocess |-> "resize_and_crop",
      no_flip |-> FALSE, flip_x |-> FALSE, rotate |-> 0,
      direction |-> "AtoB", input_nc |-> 3, output_nc |-> 3,
      agument_whiteBK_A |-> 0,
      agument_grayscale_A |-> 0, agument_grayscale_B |-> 0,
      agument_blur_A |-> 0, agument_blur_B |-> 0,
      agument_distort_A |-> 0, agument_distort_B |-> 0 ]

\* ---------------------------------------------------------- file listing
\* make_dataset walks the image directory: each file appears once, in the
\* order of the walk, which is not the sorted order.
DistinctSeqs(S, n) ==
    UNION { { s \in [1 .. k -> S] : \A i, j \in 1 .. k : i # j => s[i] # s[j] } :
            k \in 0 .. n }

make_dataset == DistinctSeqs(Paths, MaxFiles)

\* sorted(list): insertion of each element into its place
RECURSIVE Insert(_, _)
Insert(x, s) ==
    IF s = <<>> THEN <<x>>
    ELSE IF x <= Head(s) THEN <<x>> \o s
    ELSE <<Head(s)>> \o Insert(x, Tail(s))

RECURSIVE sorted(_)
sorted(s) == IF s = <<>> THEN <<>> ELSE Insert(Head(s), sorted(Tail(s)))

\* for n in range(count): lst.extend(temp)
RECURSIVE extend_times(_, _, _)
extend_times(lst, temp, count) ==
    IF count <= 0 THEN lst ELSE extend_times(lst \o temp, temp, count - 1)

\* Mutant: the loop runs repeat_dataset_count times, not repeat_dataset_count - 1
repeat_paths_off_by_one(paths, count) ==
    IF count > 1 THEN extend_times(paths, paths, count) ELSE paths

\* AlignedDataset.__init__, lines 27-30
repeat_paths(paths, count) ==
    IF count > 1 THEN extend_times(paths, paths, count - 1) ELSE paths

\* ------------------------------------------------ AlignedDataset.__init__
AlignedDataset_init ==
    /\ ds_pc = "new"
    /\ AB_paths' = repeat_paths(sorted(files), opt.repeat_dataset_count)
    /\ IF opt.load_size >= opt.crop_size
       THEN /\ ds_pc' = "ready"
            /\ input_nc' = IF opt.direction = "BtoA" THEN opt.output_nc ELSE opt.input_nc
            /\ output_nc' = IF opt.direction = "BtoA" THEN opt.input_nc ELSE opt.output_nc
       ELSE /\ ds_pc' = "assert_failed"
            /\ UNCHANGED <<input_nc, output_nc>>
    /\ UNCHANGED <<opt, files, disk, cache, path, bts, len_result, itemVars, warnVars>>

\* AlignedDataset.__len__
AlignedDataset_len ==
    /\ ds_pc = "ready"
    /\ len_result' = Len(AB_paths)
    /\ UNCHANGED <<opt, ds_pc, files, disk, AB_paths, input_nc, output_nc, cache, path, bts,
                   itemVars, warnVars>>

\* ------------------------------------------------------------- byte cache
\* open(path, 'rb').read(): the content of the file, which holds one pair image
open_read(p) == [file |-> p, size |-> disk[p]]

\* Mutant: the cache accepts one entry more than cache_num
cache_has_room_off_by_one(o, c) == o.cache_num >= Cardinality(DOMAIN c)

\* line 39: self.opt.cache_num > len(self.cache)
cache_has_room(o, c) == o.cache_num > Cardinality(DOMAIN c)

\* BaseDataset.get_cache_path
get_cache_path(p) ==
    /\ path' = p
    /\ IF p \in DOMAIN cache
       THEN /\ bts' = cache[p]
            /\ cache' = cache
       ELSE LET read == open_read(p)
            IN  /\ bts' = read
                /\ cache' = IF cache_has_room(opt, cache)
                            THEN [q \in DOMAIN cache \cup {p} |->
                                     IF q = p THEN read ELSE cache[q]]
                            ELSE cache

\* ------------------------------------------------------------- get_params
\* lines 75-87: the size get_params expects the image to have after the resize
resize_target(o, size) ==
    LET w == size[1]
        h == size[2]
    IN  CASE o.preprocess = "resize_and_crop" -> <<o.load_size, o.load_size>>
          [] o.preprocess = "scale_width_and_crop" ->
                <<o.load_size, (o.load_size * h) \div w>>
          [] o.preprocess = "scale_short_and_crop" ->
                <<round_div(w * o.load_size, Min(h, w)),
                  round_div(h * o.load_size, Min(h, w))>>
          [] OTHER -> <<w, h>>

\* Mutant: the crop offsets are drawn up to the expected size itself
crop_offsets_no_crop_size(o, size) ==
    { <<x, y>> : x \in randint(0, Max(0, resize_target(o, size)[1])),
                 y \in randint(0, Max(0, resize_target(o, size)[2])) }

\* lines 89-90: the crop offsets get_params may draw
crop_offsets(o, size) ==
    { <<x, y>> : x \in randint(0, Max(0, resize_target(o, size)[1] - o.crop_size)),
                 y \in randint(0, Max(0, resize_target(o, size)[2] - o.crop_size)) }

\* get_params: every dict it may return
get_params(o, size) ==
    { PyDict([ crop_pos |-> PyTuple(<<PyInt(xy[1]), PyInt(xy[2])>>),
               flip |-> PyBool(draw_gt_half(r1)),
               flip_x |-> PyBool(draw_gt_half(r2)),
               rotate |-> PyInt(angle) ]) :
        xy \in crop_offsets(o, size), r1 \in Draws, r2 \in Draws,
        angle \in randint(-o.rotate, o.rotate) }

\* ------------------------------------------------------ image operations
\* An operation takes the size of the image and gives the size of the result,
\* or Invalid when Pillow raises ValueError (a resize to an empty size).
Invalid == <<0, 0>>
pil_resize(size, target) ==
    IF target[1] < 1 \/ target[2] < 1 THEN Invalid ELSE target

\* transforms.Resize([load_size, load_size])
Resize(size, osize) == pil_resize(size, osize)

\* __scale_width: the size it resizes to
scale_width_target(size, target_size, crop_size) ==
    <<target_size, Max((target_size * size[2]) \div size[1], crop_size)>>

scale_width(size, target_size, crop_size) ==
    IF size[1] = target_size /\ size[2] >= crop_size
    THEN size
    ELSE pil_resize(size, scale_width_target(size, target_size, crop_size))

\* __scale_short: the size it resizes to
scale_short_target(size, target_size) ==
    <<round_div(size[1] * target_size, Min(size[1], size[2])),
      round_div(size[2] * target_size, Min(size[1], size[2]))>>

scale_short(size, target_size) ==
    IF Min(size[1], size[2]) = target_size
    THEN size
    ELSE pil_resize(size, scale_short_target(size, target_size))

\* Mutant: the crop is skipped unless both sides exceed the crop box
crop_when_both_larger(size, pos, csize) ==
    IF size[1] > csize /\ size[2] > csize THEN <<csize, csize>> ELSE size

\* __crop: img.crop((x1, y1, x1 + tw, y1 + th)) gives a tw x th image wherever
\* the box lies
crop(size, pos, csize) ==
    IF size[1] > csize \/ size[2] > csize THEN <<csize, csize>> ELSE size

\* __make_power_2: the size it rounds to
make_power_2_target(size, b) ==
    <<round_div(size[1], b) * b, round_div(size[2], b) * b>>

\* A running Compose call: the image (its size), whether an exception was
\* raised, the steps taken, and the process-wide warning state.
\* Mutant: the warning is printed whenever an image is adjusted
print_size_warning_every_time(st, ow, oh, w, h) ==
    [st EXCEPT !.printed = Append(@, <<ow, oh, w, h>>), !.has_printed = TRUE]

\* __print_size_warning
print_size_warning(st, ow, oh, w, h) ==
    IF ~st.has_printed
    THEN [st EXCEPT !.printed = Append(@, <<ow, oh, w, h>>), !.has_printed = TRUE]
    ELSE st

\* __make_power_2
make_power_2(st, b) ==
    LET ow == st.size[1]
        oh == st.size[2]
        h == make_power_2_target(st.size, b)[2]
        w == make_power_2_target(st.size, b)[1]
        called == [st EXCEPT !.calls = Append(@, st.size)]
    IN  IF h = oh /\ w = ow
        THEN called
        ELSE LET warned == print_size_warning(called, ow, oh, w, h)
                 out == pil_resize(st.size, <<w, h>>)
             IN  [warned EXCEPT !.size = out, !.ok = out # Invalid]

\* one transform of the composed list applied to the image
apply_transform(st, t) ==
    LET sized(out) == [st EXCEPT !.size = out, !.ok = out # Invalid]
    IN  CASE t.op = "Resize" -> sized(Resize(st.size, t.arg))
          [] t.op = "scale_width" -> sized(scale_width(st.size, t.arg[1], t.arg[2]))
          [] t.op = "scale_short" -> sized(scale_short(st.size, t.arg[1]))
          [] t.op = "crop" -> sized(crop(st.size, <<t.arg[1], t.arg[2]>>, t.arg[3]))
          [] t.op = "make_power_2" -> make_power_2(st, t.arg[1])
          [] OTHER -> st     \* rotate, flips, filters, colour and tensor steps keep the size

\* transforms.Compose(transform_list)(img): the transforms in order; an
\* exception ends the call
RECURSIVE Compose(_, _)
Compose(st, list) ==
    IF list = <<>> \/ ~st.ok THEN st
    ELSE LET next == apply_transform(st, Head(list))
         IN  Compose([next EXCEPT !.steps =
                         Append(@, [op |-> Head(list).op, before |-> st.size,
                                    after |-> next.size])],
                     Tail(list))

\* ---------------------------------------------------------- get_transform
Transform(name, arg) == [op |-> name, arg |-> arg]

\* lines 101-131: the native grayscale and the geometric transforms
geometric_transforms(o, params, grayscale) ==
    (IF grayscale THEN <<Transform("Grayscale", <<1>>)>> ELSE <<>>)
    \o (IF ~IsNone(params) /\ Truthy(params.v["rotate"])
        THEN <<Transform("rotate", <<params.v["rotate"].v>>)>> ELSE <<>>)
    \o (IF Contains(o.preprocess, "resize")
        THEN <<Transform("Resize", <<o.load_size, o.load_size>>)>>
        ELSE IF Contains(o.preprocess, "scale_width")
        THEN <<Transform("scale_width", <<o.load_size, o.crop_size>>)>>
        ELSE IF Contains(o.preprocess, "scale_short")
        THEN <<Transform("scale_short", <<o.load_size>>)>>
        ELSE <<>>)
    \o (IF Contains(o.preprocess, "crop")
        THEN IF IsNone(params)
             THEN <<Transform("RandomCrop", <<o.crop_size>>)>>
             ELSE <<Transform("crop", <<params.v["crop_pos"].v[1].v,
                                        params.v["crop_pos"].v[2].v, o.crop_size>>)>>
        ELSE <<>>)
    \o (IF o.preprocess = "none"
        THEN <<Transform("make_power_2", <<base>>)>> ELSE <<>>)
    \o (IF ~o.no_flip
        THEN IF IsNone(params)
             THEN <<Transform("RandomHorizontalFlip", <<>>)>>
             ELSE (IF Truthy(params.v["flip"])
                   THEN <<Transform("flip", <<>>)>> ELSE <<>>)
                  \o (IF o.flip_x /\ Truthy(params.v["flip_x"])
                      THEN <<Transform("flip_x", <<>>)>> ELSE <<>>)
        ELSE <<>>)

\* Mutant: the second draw must exceed the value
blur_trial_inverted(params, r) == ~draw_lt(r, dict_get(params, "blur", PyFloat(0)))

\* line 133: random.random() < params.get('blur', 0.0)
blur_trial(params, r) == draw_lt(r, dict_get(params, "blur", PyFloat(0)))

\* lines 132-140: every outcome of the blur step, with the draw it made
\* (-1: no draw); random.shuffle puts either name first
blur_transforms(params) ==
    IF ~IsNone(params) /\ Truthy(dict_get(params, "blur", PyFloat(0)))
    THEN { [ ops |-> IF blur_trial(params, r) THEN <<Transform(fn, <<>>)>> ELSE <<>>,
             draw |-> r ] :
           r \in Draws, fn \in {"gaussian_blur", "median_blur"} }
    ELSE { [ops |-> <<>>, draw |-> -1] }

\* lines 143-147: the keys of fs in insertion order, and fs[k]['f'], which is
\* the module's function of that name
fs_keys == <<"brightness", "contrast", "saturation", "hue", "sharpness">>
fs_f(k) == PyFunc(k)

\* lines 153-162: the if/elif chain that compares fn with five strings
distort_branch(fn) ==
    IF PyEq(fn, PyStr("brightness")) THEN <<Transform("brightness", <<>>)>>
    ELSE IF PyEq(fn, PyStr("contrast")) THEN <<Transform("contrast", <<>>)>>
    ELSE IF PyEq(fn, PyStr("saturation")) THEN <<Transform("saturation", <<>>)>>
    ELSE IF PyEq(fn, PyStr("hue")) THEN <<Transform("hue", <<>>)>>
    ELSE IF PyEq(fn, PyStr("sharpness")) THEN <<Transform("sharpness", <<>>)>>
    ELSE <<>>

\* lines 148-162: the loop over fs from key number k on; every outcome, with
\* the result of each trial
RECURSIVE distort_loop(_, _)
distort_loop(params, k) ==
    IF k > Len(fs_keys) THEN { [ops |-> <<>>, trials |-> <<>>] }
    ELSE { [ ops |-> (IF draw_lt(r, dict_get(params, "distort", PyFloat(0)))
                      THEN distort_branch(fs_f(fs_keys[k])) ELSE <<>>) \o rest.ops,
             trials |-> <<draw_lt(r, dict_get(params, "distort", PyFloat(0)))>>
                        \o rest.trials ] :
           r \in Draws, rest \in distort_loop(params, k + 1) }

\* lines 141-162
distort_transforms(params) ==
    IF ~IsNone(params) /\ Truthy(dict_get(params, "distort", PyFloat(0)))
    THEN distort_loop(params, 1)
    ELSE { [ops |-> <<>>, trials |-> <<>>] }

\* Mutant: the image is normalized before it is made a tensor
final_transforms_swapped(params, grayscale, convert) ==
    (IF ~grayscale /\ ~IsNone(params) /\ Truthy(dict_get(params, "grayscale", PyBool(FALSE)))
     THEN <<Transform("Grayscale", <<3>>)>> ELSE <<>>)
    \o (IF convert
        THEN <<Transform("Normalize", <<IF grayscale THEN 1 ELSE 3>>),
               Transform("ToTensor", <<>>)>>
        ELSE <<>>)

\* lines 163-170: the grayscale augmentation and the conversion
final_transforms(params, grayscale, convert) ==
    (IF ~grayscale /\ ~IsNone(params) /\ Truthy(dict_get(params, "grayscale", PyBool(FALSE)))
     THEN <<Transform("Grayscale", <<3>>)>> ELSE <<>>)
    \o (IF convert
        THEN <<Transform("ToTensor", <<>>),
               Transform("Normalize", <<IF grayscale THEN 1 ELSE 3>>)>>
        ELSE <<>>)

\* get_transform: every list it may compose, with the trials it made
get_transform(o, params, grayscale, convert) ==
    { [ list |-> geometric_transforms(o, params, grayscale) \o b.ops \o d.ops
                 \o final_transforms(params, grayscale, convert),
        blur_draw |-> b.draw,
        distort |-> d.trials ] :
      b \in blur_transforms(params), d \in distort_transforms(params) }

\* ------------------------------------------- AlignedDataset.__getitem__
NoTrials == [branch |-> "none", blur_draw |-> -1, distort |-> <<>>]
NoSteps == [b \in {"A", "B"} |-> <<>>]

\* lines 48-60: read the pair image through the cache, decode it and split it
\* in two halves.  transparent_to_whiteBK and convert('RGB') change pixels
\* only, not the size of A or B.
GetItem_Load ==
    /\ ds_pc = "ready"
    /\ pc \in {"idle", "done", "error"}
    /\ Len(calls) < MaxCalls
    /\ \E index \in 0 .. Len(AB_paths) - 1 : get_cache_path(AB_paths[index + 1])
    /\ LET w == bts'.size[1]
           h == bts'.size[2]
           w2 == w \div 2
       IN  /\ A' = <<w2, h>>
           /\ B' = <<w - w2, h>>
    /\ heap' = <<>>
    /\ transform_params_A' = 0
    /\ transform_params_B' = 0
    /\ A_transform' = <<>>
    /\ B_transform' = <<>>
    /\ trials' = NoTrials
    /\ applied' = NoSteps
    /\ pc' = "loaded"
    /\ UNCHANGED <<opt, ds_pc, files, disk, AB_paths, input_nc, output_nc, len_result, warnVars>>

\* a new object on the heap: the heap with it, and the reference to it
new_object(h, value) ==
    [ heap |-> [r \in DOMAIN h \cup {Cardinality(DOMAIN h) + 1} |->
                   IF r \in DOMAIN h THEN h[r] ELSE value],
      ref |-> Cardinality(DOMAIN h) + 1 ]

\* Mutant: transform_params_B = transform_params_A
copy_params_by_reference(h, ref) == [heap |-> h, ref |-> ref]

\* line 65: json.loads(json.dumps(transform_params_A)) is a new dict
copy_params(h, ref) == new_object(h, json_loads(json_dumps(h[ref])))

\* params[key] = random.random() < p, for each outcome of the draw
flag_outcomes(p) == { PyBool(r < p) : r \in Draws }

\* lines 64-72: one set of geometry parameters, B's set copied from it, and
\* the flags of each branch
GetItem_Params ==
    /\ pc = "loaded"
    /\ \E d \in get_params(opt, A) :
       \E gA \in flag_outcomes(opt.agument_grayscale_A),
          gB \in flag_outcomes(opt.agument_grayscale_B),
          bA \in flag_outcomes(opt.agument_blur_A),
          bB \in flag_outcomes(opt.agument_blur_B),
          dA \in flag_outcomes(opt.agument_distort_A),
          dB \in flag_outcomes(opt.agument_distort_B),
          wB \in flag_outcomes(opt.agument_whiteBK_A) :
          LET a == new_object(heap, d)
              b == copy_params(a.heap, a.ref)
              h1 == [b.heap EXCEPT ![a.ref] = dict_set(@, "grayscale", gA)]
              h2 == [h1 EXCEPT ![b.ref] = dict_set(@, "grayscale", gB)]
              h3 == [h2 EXCEPT ![a.ref] = dict_set(@, "blur", bA)]
              h4 == [h3 EXCEPT ![b.ref] = dict_set(@, "blur", bB)]
              h5 == [h4 EXCEPT ![a.ref] = dict_set(@, "distort", dA)]
              h6 == [h5 EXCEPT ![b.ref] = dict_set(@, "distort", dB)]
              h7 == [h6 EXCEPT ![b.ref] = dict_set(@, "whiteBK", wB)]
          IN  /\ heap' = h7
              /\ transform_params_A' = a.ref
              /\ transform_params_B' = b.ref
    /\ pc' = "params"
    /\ UNCHANGED <<dsVars, A, B, A_transform, B_transform, trials, applied, warnVars>>

\* line 74
GetItem_TransformA ==
    /\ pc = "params"
    /\ \E t \in get_transform(opt, heap[transform_params_A], input_nc = 1, TRUE) :
          /\ A_transform' = t.list
          /\ trials' = [branch |-> "A", blur_draw |-> t.blur_draw, distort |-> t.distort]
    /\ pc' = "transform_A"
    /\ UNCHANGED <<dsVars, A, B, heap, transform_params_A, transform_params_B,
                   B_transform, applied, warnVars>>

\* line 75
GetItem_TransformB ==
    /\ pc = "transform_A"
    /\ \E t \in get_transform(opt, heap[transform_params_B], output_nc = 1, TRUE) :
          /\ B_transform' = t.list
          /\ trials' = [branch |-> "B", blur_draw |-> t.blur_draw, distort |-> t.distort]
    /\ pc' = "transform_B"
    /\ UNCHANGED <<dsVars, A, B, heap, transform_params_A, transform_params_B,
                   A_transform, applied, warnVars>>

Running(size) ==
    [ size |-> size, ok |-> TRUE, steps |-> <<>>,
      has_printed |-> has_printed, printed |-> printed, calls |-> calls ]

\* line 77: A = A_transform(A)
GetItem_ApplyA ==
    /\ pc = "transform_B"
    /\ LET out == Compose(Running(A), A_transform)
       IN  /\ A' = out.size
           /\ applied' = [applied EXCEPT !["A"] = out.steps]
           /\ has_printed' = out.has_printed
           /\ printed' = out.printed
           /\ calls' = out.calls
           /\ pc' = IF out.ok THEN "applied_A" ELSE "error"
    /\ UNCHANGED <<dsVars, B, heap, transform_params_A, transform_params_B,
                   A_transform, B_transform, trials>>

\* lines 78-80: B = B_transform(B), and the sample is returned
GetItem_ApplyB ==
    /\ pc = "applied_A"
    /\ LET out == Compose(Running(B), B_transform)
       IN  /\ B' = out.size
           /\ applied' = [applied EXCEPT !["B"] = out.steps]
           /\ has_printed' = out.has_printed
           /\ printed' = out.printed
           /\ calls' = out.calls
           /\ pc' = IF out.ok THEN "done" ELSE "error"
    /\ UNCHANGED <<dsVars, A, heap, transform_params_A, transform_params_B,
                   A_transform, B_transform, trials>>

GetItem ==
    \/ GetItem_Load
    \/ GetItem_Params
    \/ GetItem_TransformA
    \/ GetItem_TransformB
    \/ GetItem_ApplyA
    \/ GetItem_ApplyB

\* --------------------------------------------------------- specifications
\* A process before the dataset object is built
NotStarted ==
    /\ ds_pc = "new"
    /\ AB_paths = <<>>
    /\ input_nc = 0
    /\ output_nc = 0
    /\ cache = <<>>
    /\ path = 0
    /\ bts = NoBytes
    /\ len_result = -1
    /\ pc = "idle"
    /\ A = <<0, 0>>
    /\ B = <<0, 0>>
    /\ heap = <<>>
    /\ transform_params_A = 0
    /\ transform_params_B = 0
    /\ A_transform = <<>>
    /\ B_transform = <<>>
    /\ trials = NoTrials
    /\ applied = NoSteps
    /\ has_printed = FALSE
    /\ printed = <<>>
    /\ calls = <<>>

\* pair images: the width is at least 2, so that each half has a column
PairSizes == { <<w, h>> : w \in 2 .. 2 * MaxDim + 1, h \in 1 .. MaxDim }

\* Dataset and cache: the file list, its repetition and the cache size vary
DatasetOpts ==
    { [DefaultOpt EXCEPT !.repeat_dataset_count = k, !.cache_num = c,
                         !.load_size = l] :
        k \in 0 .. MaxRepeat, c \in -1 .. MaxCacheNum, l \in 1 .. 2 }

InitDataset ==
    /\ opt \in DatasetOpts
    /\ files \in make_dataset
    /\ disk = [p \in Paths |-> <<2 * p, 2>>]
    /\ NotStarted

NextDataset == AlignedDataset_init \/ AlignedDataset_len \/ GetItem

SpecDataset == InitDataset /\ [][NextDataset]_vars

Next == AlignedDataset_init \/ GetItem

\* Geometry: the preprocess mode, load_size >= crop_size and the image size
\* vary; one file, whose halves have equal sizes
GeometryOpts ==
    { [DefaultOpt EXCEPT !.preprocess = m, !.load_size = l, !.crop_size = c] :
        m \in Modes \ {"none"}, l \in 1 .. MaxLoad, c \in 1 .. MaxLoad }

InitGeometry ==
    /\ opt \in { o \in GeometryOpts : o.load_size >= o.crop_size }
    /\ files = <<1>>
    /\ disk \in [{1} -> { s \in PairSizes : s[1] % 2 = 0 }]
    /\ NotStarted

SpecGeometry == InitGeometry /\ [][Next]_vars

\* Size rounding: preprocess is 'none'; two files, the first of any size, the
\* second with halves of 3 x 3
InitWarn ==
    /\ opt = [DefaultOpt EXCEPT !.preprocess = "none"]
    /\ files = <<1, 2>>
    /\ disk \in { [p \in {1, 2} |-> IF p = 1 THEN s ELSE <<6, 3>>] : s \in PairSizes }
    /\ NotStarted

SpecWarn == InitWarn /\ [][Next]_vars

\* Parameter sets: crop offsets, rotation and the grayscale and whiteBK flags vary
ParamsOpts ==
    { [DefaultOpt EXCEPT !.load_size = MaxLoad, !.crop_size = MaxLoad - 1,
                         !.rotate = MaxRotate,
                         !.agument_grayscale_A = gA, !.agument_grayscale_B = gB,
                         !.agument_whiteBK_A = wA] :
        gA \in {0, Half, Scale}, gB \in {0, Half, Scale}, wA \in {0, Half, Scale} }

InitParams ==
    /\ opt \in ParamsOpts
    /\ files = <<1>>
    /\ disk = [p \in {1} |-> <<4, 2>>]
    /\ NotStarted

SpecParams == InitParams /\ [][Next]_vars

\* Augmentation: the blur and distort probabilities of both branches vary
AugmentOpts ==
    { [DefaultOpt EXCEPT !.agument_blur_A = bA, !.agument_blur_B = bB,
                         !.agument_distort_A = dA, !.agument_distort_B = dB] :
        bA \in {0, Half, Scale}, bB \in {0, Half, Scale},
        dA \in {0, Half, Scale}, dB \in {0, Half, Scale} }

InitAugment ==
    /\ opt \in AugmentOpts
    /\ files = <<1>>
    /\ disk = [p \in {1} |-> <<4, 2>>]
    /\ NotStarted

SpecAugment == InitAugment /\ [][Next]_vars

\* Composition: the mode, the flip switches, the rotation and the channel
\* counts vary; A is blurred and distorted whenever its flags allow it
OrderOpts ==
    { [DefaultOpt EXCEPT !.preprocess = m, !.no_flip = nf, !.flip_x = fx,
                         !.rotate = rot, !.input_nc = nc,
                         !.load_size = 4, !.crop_size = 4,
                         !.agument_blur_A = Scale, !.agument_distort_A = Scale,
                         !.agument_grayscale_A = Half, !.agument_grayscale_B = Half] :
        m \in Modes, nf \in BOOLEAN, fx \in BOOLEAN, rot \in {0, MaxRotate},
        nc \in {1, 3} }

InitOrder ==
    /\ opt \in OrderOpts
    /\ files = <<1>>
    /\ disk = [p \in {1} |-> <<8, 4>>]
    /\ NotStarted

SpecOrder == InitOrder /\ [][Next]_vars

\* ------------------------------------------------------------------ C6
IsSorted(s) == \A i \in 1 .. Len(s) - 1 : s[i] <= s[i + 1]
SameFiles(s, t) ==
    /\ Len(s) = Len(t)
    /\ { s[i] : i \in 1 .. Len(s) } = { t[i] : i \in 1 .. Len(t) }

\* C6: once the dataset is built from the sorted file list L of n paths, with
\* repeat_dataset_count = k > 1 the index list has k*n elements and element i
\* (from 0) is L[i mod n]; with k <= 1 the index list is L; and __len__
\* returns the length of the index list.
C6_RepeatedFileList ==
    ds_pc = "ready" =>
        LET L == sorted(files)
            n == Len(L)
            k == opt.repeat_dataset_count
        IN  /\ IsSorted(L) /\ SameFiles(L, files)
            /\ k > 1 => /\ Len(AB_paths) = k * n
                        /\ \A i \in 0 .. k * n - 1 : AB_paths[i + 1] = L[(i % n) + 1]
            /\ k <= 1 => AB_paths = L
            /\ len_result # -1 => len_result = Len(AB_paths)

\* an unsorted listing of three files, repeated three times, and __len__ called
C6_Witness ==
    /\ ds_pc = "ready"
    /\ opt.repeat_dataset_count = 3
    /\ Len(files) = 3
    /\ ~IsSorted(files)
    /\ len_result = 9

\* ----------------------------------------------------------------- C10
\* C10: in every step of a built dataset the cache holds at most
\* max(0, cache_num) entries, every entry it held stays with the same bytes,
\* and a get_cache_path call returns the bytes of the requested file: the
\* stored ones on a hit, the ones just read on a miss.
C10_CacheStep ==
    ds_pc = "ready" =>
        /\ Cardinality(DOMAIN cache') <= Max(0, opt.cache_num)
        /\ \A p \in DOMAIN cache : p \in DOMAIN cache' /\ cache'[p] = cache[p]
        /\ pc' = "loaded" =>
              /\ bts' = IF path' \in DOMAIN cache THEN cache[path'] ELSE open_read(path')
              /\ bts'.file = path'
              /\ bts'.size = disk[path']

C10_CacheBounded == [][C10_CacheStep]_vars

\* a miss on a full cache: the bytes are read and returned, not inserted
C10_Witness ==
    /\ pc = "loaded"
    /\ opt.cache_num >= 1
    /\ Cardinality(DOMAIN cache) = opt.cache_num
    /\ path \notin DOMAIN cache
    /\ bts = open_read(path)

\* ------------------------------------------------------------------ C1
Geometry(d) ==
    << d.v["crop_pos"].v[1].v, d.v["crop_pos"].v[2].v,
       d.v["flip"].v, d.v["flip_x"].v, d.v["rotate"].v >>

\* C1: once __getitem__ has built both parameter sets and written the
\* per-branch flags, the two sets hold the same crop offset, flip, flip_x and
\* rotate, and they are two objects: B's is a copy by value, so the flags of
\* one are not the flags of the other (whiteBK, written to B only, is in B's
\* set and not in A's).
C1_SharedGeometry ==
    transform_params_A # 0 =>
        LET a == heap[transform_params_A]
            b == heap[transform_params_B]
        IN  /\ Geometry(a) = Geometry(b)
            /\ transform_params_A # transform_params_B
            /\ {"grayscale", "blur", "distort"} \subseteq DOMAIN a.v
            /\ {"grayscale", "blur", "distort", "whiteBK"} \subseteq DOMAIN b.v
            /\ "whiteBK" \notin DOMAIN a.v

\* a nonzero crop offset, a flip and a rotation shared by two sets whose
\* grayscale flags differ
C1_Witness ==
    /\ pc = "params"
    /\ Geometry(heap[transform_params_A]) = <<1, 1, TRUE, FALSE, -1>>
    /\ Geometry(heap[transform_params_B]) = <<1, 1, TRUE, FALSE, -1>>
    /\ heap[transform_params_A].v["grayscale"].v
    /\ ~heap[transform_params_B].v["grayscale"].v

\* ------------------------------------------------------------------ C2
ResizeOps == {"Resize", "scale_width", "scale_short"}
CropModes == {"resize_and_crop", "scale_width_and_crop", "scale_short_and_crop"}

\* C2: in the modes resize_and_crop, scale_width_and_crop and
\* scale_short_and_crop, with load_size >= crop_size, the crop offset that
\* get_params drew for an image lies in 0 .. max(0, W - crop_size) by
\* 0 .. max(0, H - crop_size), where W x H is the size the image has after
\* the resize step of the composed transform.
C2_CropOffsetInBounds ==
    (opt.preprocess \in CropModes /\ applied["A"] # <<>>) =>
        \A i \in 1 .. Len(applied["A"]) :
            applied["A"][i].op \in ResizeOps =>
                LET W == applied["A"][i].after[1]
                    H == applied["A"][i].after[2]
                    x == Geometry(heap[transform_params_A])[1]
                    y == Geometry(heap[transform_params_A])[2]
                IN  /\ 0 <= x /\ x <= Max(0, W - opt.crop_size)
                    /\ 0 <= y /\ y <= Max(0, H - opt.crop_size)

\* a scaled image that is not square, cropped at the largest offsets
C2_Witness ==
    /\ opt.preprocess = "scale_short_and_crop"
    /\ applied["A"] # <<>>
    /\ \E i \in 1 .. Len(applied["A"]) :
          /\ applied["A"][i].op = "scale_short"
          /\ applied["A"][i].after # applied["A"][i].before
          /\ applied["A"][i].after[1] > applied["A"][i].after[2]
          /\ Geometry(heap[transform_params_A])[1] = applied["A"][i].after[1] - opt.crop_size
          /\ Geometry(heap[transform_params_A])[2] = applied["A"][i].after[2] - opt.crop_size
          /\ Geometry(heap[transform_params_A])[2] > 0

\* ------------------------------------------------------------------ C7
\* the steps the last Compose calls took on A and on B
Steps == UNION { { applied[b][i] : i \in 1 .. Len(applied[b]) } : b \in {"A", "B"} }

\* The claim as stated: __crop leaves the width unchanged when ow <= crop_size,
\* the height unchanged when oh <= crop_size, and the image as it is when
\* both hold.
C7_CropPerDimension ==
    \A st \in Steps :
        st.op = "crop" =>
            /\ st.before[1] <= opt.crop_size => st.after[1] = st.before[1]
            /\ st.before[2] <= opt.crop_size => st.after[2] = st.before[2]

\* C7: __crop returns the image as it is when both sides are <= crop_size;
\* when either side is larger it takes the crop_size x crop_size box at the
\* offset, so the result is crop_size wide and high, also along a side where
\* the image is smaller than the box.
C7_CropAllOrNothing ==
    \A st \in Steps :
        st.op = "crop" =>
            IF st.before[1] <= opt.crop_size /\ st.before[2] <= opt.crop_size
            THEN st.after = st.before
            ELSE st.after = <<opt.crop_size, opt.crop_size>>

\* an image narrower than the crop box and higher than it
C7_Witness ==
    \E st \in Steps :
        /\ st.op = "crop"
        /\ st.before[1] < opt.crop_size
        /\ st.before[2] > opt.crop_size
        /\ st.after = <<opt.crop_size, opt.crop_size>>

\* ------------------------------------------------------------------ C8
\* The claim as stated: on an image of width and height >= 1 the size the
\* resize step computes has both sides >= 1 and no step fails; under 'none'
\* __make_power_2 gives positive multiples of 4 and leaves an aligned image
\* as it is.
C8_ResizeTotal ==
    /\ pc # "error"
    /\ \A st \in Steps :
          (st.before[1] >= 1 /\ st.before[2] >= 1) =>
              /\ st.op \in ResizeOps \cup {"make_power_2"} =>
                    st.after[1] >= 1 /\ st.after[2] >= 1
              /\ st.op = "make_power_2" =>
                    /\ make_power_2_target(st.before, base)[1] >= 1
                    /\ make_power_2_target(st.before, base)[2] >= 1
                    /\ st.after[1] % base = 0 /\ st.after[2] % base = 0
                    /\ (st.before[1] % base = 0 /\ st.before[2] % base = 0)
                          => st.after = st.before

\* ------------------------------------------------------------------ C9
Unaligned == { i \in 1 .. Len(calls) : calls[i][1] % base # 0 \/ calls[i][2] % base # 0 }
FirstUnaligned == CHOOSE i \in Unaligned : \A j \in Unaligned : i <= j

\* C9: over the __make_power_2 calls of a process the size warning is printed
\* at most once: by the first call whose image has a side that is not a
\* multiple of 4, with that image's size, and by no other call.
C9_WarnOnce ==
    /\ Len(printed) <= 1
    /\ has_printed <=> printed # <<>>
    /\ IF Unaligned = {}
       THEN printed = <<>>
       ELSE /\ Len(printed) = 1
            /\ <<printed[1][1], printed[1][2]>> = calls[FirstUnaligned]

\* an aligned image first, then two images of different sizes that need
\* adjustment
C9_Witness ==
    /\ Len(calls) >= 4
    /\ 1 \notin Unaligned
    /\ {2, 3, 4} \subseteq Unaligned
    /\ calls[2] # calls[3]
    /\ Len(printed) = 1

\* ------------------------------------------------------------ C3 and C4
\* the list and the parameter set of the last get_transform call
LastList == IF trials.branch = "A" THEN A_transform ELSE B_transform
LastParams ==
    IF trials.branch = "A" THEN heap[transform_params_A] ELSE heap[transform_params_B]
OpsOf(list) == [i \in 1 .. Len(list) |-> list[i].op]
HasOp(list, names) == \E i \in 1 .. Len(list) : list[i].op \in names
Photometric == {"brightness", "contrast", "saturation", "hue", "sharpness"}
Blurs == {"gaussian_blur", "median_blur"}
IsPhotometric(name) == name \in Photometric

RECURSIVE Chosen(_, _)
Chosen(names, picks) ==
    IF names = <<>> THEN <<>>
    ELSE (IF Head(picks) THEN <<Head(names)>> ELSE <<>>) \o Chosen(Tail(names), Tail(picks))

\* The claim as stated: with the distort flag true there is one trial for each
\* of brightness, contrast, saturation, hue and sharpness, and the
\* photometric operations of the list are those whose trial succeeded, in
\* that order.
C3_DistortApplied ==
    (trials.branch # "none" /\ Truthy(LastParams.v["distort"])) =>
        /\ Len(trials.distort) = Len(fs_keys)
        /\ SelectSeq(OpsOf(LastList), IsPhotometric) = Chosen(fs_keys, trials.distort)

\* The claim as stated: with the blur flag true and a second draw r >= p,
\* where p < 1 is the configured blur probability of the branch, no blur
\* filter is appended.
BlurProbability ==
    IF trials.branch = "A" THEN opt.agument_blur_A ELSE opt.agument_blur_B

C4_DoubleGated ==
    (/\ trials.branch # "none"
     /\ Truthy(LastParams.v["blur"])
     /\ BlurProbability < Scale
     /\ trials.blur_draw >= BlurProbability) => ~HasOp(LastList, Blurs)

\* C4: get_transform appends a blur filter (Gaussian or median) exactly when
\* the branch's blur flag is true: the second draw is compared with the flag,
\* which is True, and every draw is below it, so the filter is appended
\* whatever the configured probability is; and it is appended once.
C4_BlurFollowsFlag ==
    trials.branch # "none" =>
        /\ HasOp(LastList, Blurs) <=> Truthy(LastParams.v["blur"])
        /\ (trials.blur_draw >= 0) <=> Truthy(LastParams.v["blur"])
        /\ Len(SelectSeq(OpsOf(LastList), LAMBDA n : n \in Blurs)) <= 1

\* the flag is true, the second draw is not below the probability, and the
\* median filter is in the list
C4_Witness ==
    /\ trials.branch = "B"
    /\ Truthy(LastParams.v["blur"])
    /\ BlurProbability = Half
    /\ trials.blur_draw >= BlurProbability
    /\ HasOp(LastList, {"median_blur"})

\* ------------------------------------------------------------------ C5
Rank(t) ==
    CASE t.op = "Grayscale" /\ t.arg = <<1>> -> 1
      [] t.op = "rotate" -> 2
      [] t.op \in ResizeOps -> 3
      [] t.op \in {"crop", "RandomCrop"} -> 4
      [] t.op = "make_power_2" -> 5
      [] t.op \in {"flip", "RandomHorizontalFlip"} -> 6
      [] t.op = "flip_x" -> 7
      [] t.op \in Blurs -> 8
      [] t.op = "brightness" -> 9
      [] t.op = "contrast" -> 10
      [] t.op = "saturation" -> 11
      [] t.op = "hue" -> 12
      [] t.op = "sharpness" -> 13
      [] t.op = "Grayscale" /\ t.arg = <<3>> -> 14
      [] t.op = "ToTensor" -> 15
      [] t.op = "Normalize" -> 16

InFixedOrder(list) ==
    /\ \A i \in 1 .. Len(list) - 1 : Rank(list[i]) < Rank(list[i + 1])
    /\ \A i, j \in 1 .. Len(list) :
          (Rank(list[i]) \in 8 .. 13 /\ Rank(list[j]) \in 2 .. 7) => j < i
    /\ Len(list) >= 2
    /\ list[Len(list)].op = "Normalize"
    /\ list[Len(list) - 1].op = "ToTensor"

\* C5: every list get_transform composes is a subsequence of the fixed order
\* single-channel grayscale, rotate, resize or scale, crop, round to a
\* multiple of 4, horizontal flip, vertical flip, blur, photometric
\* distortions, 3-channel grayscale, to-tensor, normalize; no geometric
\* operation follows a blur or a photometric one; and with conversion on,
\* the list ends with to-tensor, normalize.
C5_FixedOrder ==
    /\ pc \notin {"idle", "loaded", "params"} => InFixedOrder(A_transform)
    /\ pc \notin {"idle", "loaded", "params", "transform_A"} => InFixedOrder(B_transform)

\* a list with a rotation, a resize, a crop, both flips, a blur and the
\* grayscale augmentation
C5_Witness ==
    /\ pc = "transform_A"
    /\ OpsOf(A_transform) = <<"rotate", "Resize", "crop", "flip", "flip_x",
                              "gaussian_blur", "Grayscale", "ToTensor", "Normalize">>

====
